---------------------------- MODULE Spec2Model ----------------------------
(***************************************************************************)
(* Model of the technical-indicator engine of the Bitcoin dashboard        *)
(* (src/technical_indicators.py).                                          *)
(*                                                                         *)
(* A pandas Series of float64 is a sequence of values.  A value is a pair  *)
(* <<n, d>>: for d > 0 the rational n/d in lowest terms; d = 0 encodes the *)
(* IEEE-754 special values the code relies on: <<0,0>> is NaN (the         *)
(* "undefined marker"), <<1,0>> is +inf and <<-1,0>> is -inf.  Arithmetic  *)
(* follows IEEE-754 on the special values and is exact on the rationals    *)
(* (rounding of finite results is not modelled, except for sqrt, which is  *)
(* rounded down to a grid of 1/SqrtScale).  The sign of zero is not        *)
(* modelled: x/0 with x > 0 is +inf.                                       *)
(*                                                                         *)
(* Sequences are 1-based here; position i of the model is index i-1 of     *)
(* the pandas Series.                                                      *)
(*                                                                         *)
(* A DataFrame is a record [index, cols]: the row labels and a function    *)
(* from column names to Series.  DataFrames are mutable objects: `frames`  *)
(* is the heap of the frames that exist, a frame is referred to by its     *)
(* position in it, and frames[1] is the frame the caller passes in.        *)
(* `self` holds the attributes of the TechnicalIndicators instance and     *)
(* `ncalls` counts the pipeline calls made on it.                          *)
(*                                                                         *)
(* The dashboard script (src/app.py) runs top to bottom on every rerun.    *)
(* `session` is st.session_state, a function from the keys it has to       *)
(* their values; `now` is the clock in seconds; `requests` lists the       *)
(* requests the last run sent to the price API, with their outcomes.       *)
(***************************************************************************)
EXTENDS Integers, Sequences, FiniteSets, TLC

VARIABLES close, high, low, op, args, out, frames, self, ncalls,
          session, now, requests

vars == <<close, high, low, op, args, out, frames, self, ncalls,
          session, now, requests>>

\* the state of the dashboard script (src/app.py)
app_vars == <<session, now, requests>>

---------------------------------------------------------------------------
(* Bounds of the model *)

MaxLen == 4         \* longest close series drawn
MaxWindow == 3      \* largest window / span / period drawn
MaxStd == 2         \* largest num_std drawn (the code's default)
SqrtScale == 64     \* sqrt results are rounded down to multiples of 1/SqrtScale

Prices == {1, 2, 4}      \* close values drawn

MaxRows == MaxLen - 1    \* longest high / low / close frame drawn
MaxFrameRows == 2        \* most rows of a DataFrame passed to the pipeline
MaxCalls == 2            \* most pipeline calls made on one instance
LongRows == 15           \* rows of the frames that fill a 14-row window
MaxTime == 602           \* the clock stops the dashboard reruns at this second
MaxRawRows == 3          \* most rows of a raw frame passed to clean_data
Extremes == {1, 3}       \* high and low values drawn (low <= high)
Closes == {1, 2, 3}      \* close values drawn beside them, inside the candle or not

---------------------------------------------------------------------------
(* float64 values *)

NaN == <<0, 0>>
PInf == <<1, 0>>
NInf == <<-1, 0>>

Abs(n) == IF n < 0 THEN -n ELSE n
Sign(n) == IF n < 0 THEN -1 ELSE IF n > 0 THEN 1 ELSE 0
Max2(a, b) == IF a >= b THEN a ELSE b

RECURSIVE GCD(_, _)
GCD(a, b) == IF b = 0 THEN a ELSE GCD(b, a % b)

\* n/d as a value; a zero divisor gives NaN or a signed infinity
Norm(n, d) ==
    IF d = 0 THEN <<Sign(n), 0>>
    ELSE LET g == GCD(Abs(n), Abs(d))
             s == Sign(d)
         IN <<(s * n) \div g, (s * d) \div g>>

Num(k) == <<k, 1>>
IsNaN(x) == x = NaN
IsInf(x) == x = PInf \/ x = NInf
IsFinite(x) == x[2] > 0
SignOf(x) == Sign(x[1])

Neg(x) == <<-x[1], x[2]>>

Add(x, y) ==
    IF IsNaN(x) \/ IsNaN(y) THEN NaN
    ELSE IF IsInf(x) THEN (IF IsInf(y) /\ y # x THEN NaN ELSE x)
    ELSE IF IsInf(y) THEN y
    ELSE LET g == GCD(x[2], y[2])        \* over the least common denominator
         IN Norm(x[1] * (y[2] \div g) + y[1] * (x[2] \div g), (x[2] \div g) * y[2])

Sub(x, y) == Add(x, Neg(y))

Mul(x, y) ==
    IF IsNaN(x) \/ IsNaN(y) THEN NaN
    ELSE IF IsInf(x) \/ IsInf(y)
         THEN <<SignOf(x) * SignOf(y), 0>>       \* 0 * inf = NaN
    ELSE LET g == Max2(GCD(Abs(x[1]), y[2]), 1)      \* cancel before multiplying
             h == Max2(GCD(Abs(y[1]), x[2]), 1)
         IN Norm((x[1] \div g) * (y[1] \div h), (x[2] \div h) * (y[2] \div g))

Div(x, y) ==
    IF IsNaN(x) \/ IsNaN(y) THEN NaN
    ELSE IF IsInf(x) THEN (IF IsInf(y) THEN NaN
                           ELSE IF SignOf(y) < 0 THEN Neg(x) ELSE x)
    ELSE IF IsInf(y) THEN Num(0)
    ELSE IF y[1] = 0 THEN <<SignOf(x), 0>>       \* x/0 = sign(x)*inf, 0/0 = NaN
    ELSE Mul(x, <<Sign(y[1]) * y[2], Abs(y[1])>>)

\* comparisons are False whenever an operand is NaN
Lt(x, y) ==
    /\ ~IsNaN(x) /\ ~IsNaN(y)
    /\ x # y
    /\ IF x = NInf \/ y = PInf THEN TRUE
       ELSE IF x = PInf \/ y = NInf THEN FALSE
       ELSE x[1] * y[2] < y[1] * x[2]

Gt(x, y) == Lt(y, x)
Le(x, y) == ~IsNaN(x) /\ ~IsNaN(y) /\ ~Lt(y, x)
Ge(x, y) == Le(y, x)

AbsV(x) == IF x[1] < 0 THEN Neg(x) ELSE x

\* largest r in lo..hi with r*r <= m  (lo*lo <= m < (hi+1)*(hi+1))
RECURSIVE ISqrtIn(_, _, _)
ISqrtIn(lo, hi, m) ==
    IF lo >= hi THEN lo
    ELSE LET mid == (lo + hi + 1) \div 2
         IN IF mid * mid <= m THEN ISqrtIn(mid, hi, m) ELSE ISqrtIn(lo, mid - 1, m)

\* np.sqrt: NaN for NaN and negatives, rounded down to the 1/SqrtScale grid
Sqrt(x) ==
    IF IsNaN(x) \/ x = NInf \/ x[1] < 0 THEN NaN
    ELSE IF x = PInf THEN PInf
    ELSE LET m == (x[1] * SqrtScale * SqrtScale) \div x[2]
         IN Norm(ISqrtIn(0, m, m), SqrtScale)

---------------------------------------------------------------------------
(* pandas Series operations used by the indicators *)

SeriesUpTo(S, n) == UNION {[1..k -> S] : k \in 1..n}

SAdd(a, b) == [i \in 1..Len(a) |-> Add(a[i], b[i])]
SSub(a, b) == [i \in 1..Len(a) |-> Sub(a[i], b[i])]
SDiv(a, b) == [i \in 1..Len(a) |-> Div(a[i], b[i])]
SNeg(a) == [i \in 1..Len(a) |-> Neg(a[i])]
SScale(a, k) == [i \in 1..Len(a) |-> Mul(a[i], k)]       \* series * scalar
SAbs(a) == [i \in 1..Len(a) |-> AbsV(a[i])]

\* Series.diff(): the first position has no predecessor
Diff(data) == [i \in 1..Len(data) |-> IF i = 1 THEN NaN ELSE Sub(data[i], data[i-1])]

\* Series.shift(): every value moves one position later
Shift(data) == [i \in 1..Len(data) |-> IF i = 1 THEN NaN ELSE data[i-1]]

\* pd.concat([a, b, c], axis=1).max(axis=1): the largest value of each row;
\* skipna defaults to True, so NaN entries are left out and the result is
\* NaN only where all three are NaN
RowMax(a, b, c) ==
    [i \in 1..Len(a) |->
        LET vals == {v \in {a[i], b[i], c[i]} : ~IsNaN(v)}
        IN IF vals = {} THEN NaN
           ELSE CHOOSE v \in vals : \A u \in vals : Ge(v, u)]

\* data.where(data > 0, other): keeps the value where the comparison is
\* True, else other (a comparison with NaN is False)
WherePositive(data, other) ==
    [i \in 1..Len(data) |-> IF Gt(data[i], Num(0)) THEN data[i] ELSE other]

\* data.where(data < 0, other)
WhereNegative(data, other) ==
    [i \in 1..Len(data) |-> IF Lt(data[i], Num(0)) THEN data[i] ELSE other]

\* Rolling._prep_values: infinities are turned into NaN before aggregation
PrepValues(data) == [i \in 1..Len(data) |-> IF IsInf(data[i]) THEN NaN ELSE data[i]]

\* roll_mean: running sum and count of the non-NaN values of the window after
\* position i (the value leaving the window is removed, the new one added)
RECURSIVE RollSum(_, _, _)
RollSum(v, window, i) ==
    IF i = 0 THEN [s |-> Num(0), n |-> 0]
    ELSE LET p == RollSum(v, window, i - 1)
             r == IF i > window /\ ~IsNaN(v[i - window])
                  THEN [s |-> Sub(p.s, v[i - window]), n |-> p.n - 1]
                  ELSE p
         IN IF IsNaN(v[i]) THEN r ELSE [s |-> Add(r.s, v[i]), n |-> r.n + 1]

\* Series.rolling(window, min_periods).mean()
RollingMean(data, window, min_periods) ==
    LET v == PrepValues(data)
    IN [i \in 1..Len(data) |->
          LET st == RollSum(v, window, i)
          IN IF st.n >= min_periods /\ st.n > 0 THEN Div(st.s, Num(st.n)) ELSE NaN]

\* the non-NaN values of the window ending at position i
WindowObs(v, window, i) ==
    {j \in Max2(1, i - window + 1)..i : ~IsNaN(v[j])}

\* Series.rolling(window).min(): min_periods defaults to window
RollingMin(data, window) ==
    LET v == PrepValues(data)
    IN [i \in 1..Len(data) |->
          LET obs == WindowObs(v, window, i)
          IN IF Cardinality(obs) >= window
             THEN v[CHOOSE j \in obs : \A k \in obs : Le(v[j], v[k])]
             ELSE NaN]

\* Series.rolling(window).max()
RollingMax(data, window) ==
    LET v == PrepValues(data)
    IN [i \in 1..Len(data) |->
          LET obs == WindowObs(v, window, i)
          IN IF Cardinality(obs) >= window
             THEN v[CHOOSE j \in obs : \A k \in obs : Ge(v[j], v[k])]
             ELSE NaN]

\* roll_var: Welford's running count, mean and sum of squared deviations
WelfordAdd(p, val) ==
    LET n == p.n + 1
        delta == Sub(val, p.mean)
        mean == Add(p.mean, Div(delta, Num(n)))
    IN [n |-> n, mean |-> mean, ssqdm |-> Add(p.ssqdm, Mul(Sub(val, mean), delta))]

WelfordRemove(p, val) ==
    LET n == p.n - 1
        delta == Sub(val, p.mean)
        mean == Sub(p.mean, Div(delta, Num(n)))
    IN IF n = 0 THEN [n |-> 0, mean |-> Num(0), ssqdm |-> Num(0)]
       ELSE [n |-> n, mean |-> mean, ssqdm |-> Sub(p.ssqdm, Mul(Sub(val, mean), delta))]

RECURSIVE RollVar(_, _, _)
RollVar(v, window, i) ==
    IF i = 0 THEN [n |-> 0, mean |-> Num(0), ssqdm |-> Num(0)]
    ELSE LET p == RollVar(v, window, i - 1)
             r == IF i > window /\ ~IsNaN(v[i - window])
                  THEN WelfordRemove(p, v[i - window]) ELSE p
         IN IF IsNaN(v[i]) THEN r ELSE WelfordAdd(r, v[i])

\* calc_var: undefined unless more than ddof observations fill min_periods
CalcVar(st, min_periods, ddof) ==
    IF st.n >= min_periods /\ st.n > ddof
    THEN (IF st.n = 1 THEN Num(0)
          ELSE LET r == Div(st.ssqdm, Num(st.n - ddof))
               IN IF Lt(r, Num(0)) THEN Num(0) ELSE r)
    ELSE NaN

\* Series.rolling(window).std(ddof): min_periods defaults to window
RollingStdDdof(data, window, ddof) ==
    LET v == PrepValues(data)
    IN [i \in 1..Len(data) |-> Sqrt(CalcVar(RollVar(v, window, i), Max2(window, 1), ddof))]

RollingStdPopulation(data, window) == RollingStdDdof(data, window, 0)

\* Series.rolling(window).std(): the sample standard deviation, ddof = 1
RollingStd(data, window) == RollingStdDdof(data, window, 1)

\* ewm(span, adjust).mean() (pandas' ewm kernel, ignore_na = False,
\* min_periods = 0): the weighted value and the weight of the past after
\* position i
RECURSIVE EwmState(_, _, _, _)
EwmState(v, alpha, adjust, i) ==
    IF i = 1 THEN [weighted |-> v[1], old_wt |-> Num(1),
                   nobs |-> IF IsNaN(v[1]) THEN 0 ELSE 1]
    ELSE LET p == EwmState(v, alpha, adjust, i - 1)
             cur == v[i]
             is_obs == ~IsNaN(cur)
             nobs == p.nobs + (IF is_obs THEN 1 ELSE 0)
             new_wt == IF adjust THEN Num(1) ELSE alpha
             decayed == Mul(p.old_wt, Sub(Num(1), alpha))
         IN IF ~IsNaN(p.weighted)
            THEN (IF is_obs
                  THEN [weighted |-> Div(Add(Mul(decayed, p.weighted), Mul(new_wt, cur)),
                                         Add(decayed, new_wt)),
                        old_wt |-> IF adjust THEN Add(decayed, new_wt) ELSE Num(1),
                        nobs |-> nobs]
                  ELSE [weighted |-> p.weighted, old_wt |-> decayed, nobs |-> nobs])
            ELSE [weighted |-> cur, old_wt |-> p.old_wt, nobs |-> nobs]

EwmMean(data, span, adjust) ==
    LET alpha == Div(Num(2), Num(span + 1))
    IN [i \in 1..Len(data) |->
          LET st == EwmState(data, alpha, adjust, i)
          IN IF st.nobs >= 1 THEN st.weighted ELSE NaN]

---------------------------------------------------------------------------
(* TechnicalIndicators: the indicator functions *)

simple_moving_average_full_window(data, window) == RollingMean(data, window, window)

simple_moving_average(data, window) == RollingMean(data, window, 1)

exponential_moving_average_adjusted(data, window) == EwmMean(data, window, TRUE)

exponential_moving_average(data, window) == EwmMean(data, window, FALSE)

rsi_gain(delta, window) ==
    RollingMean(WherePositive(delta, Num(0)), window, window)

rsi_loss(delta, window) ==
    RollingMean(SNeg(WhereNegative(delta, Num(0))), window, window)

rsi_rs_inverted(gain, loss) == SDiv(loss, gain)

rsi_rs_guarded(gain, loss) ==
    SDiv(gain, [i \in 1..Len(loss) |-> IF loss[i] = Num(0) THEN NaN ELSE loss[i]])

rsi_rs(gain, loss) == SDiv(gain, loss)

relative_strength_index(data, window) ==
    LET delta == Diff(data)
        rs == rsi_rs(rsi_gain(delta, window), rsi_loss(delta, window))
    IN [i \in 1..Len(data) |->
          Sub(Num(100), Div(Num(100), Add(Num(1), rs[i])))]

\* <<MACD line, signal line, histogram>>
macd_signal_of_price(data, fast, slow, signal) ==
    LET macd_line == SSub(exponential_moving_average(data, fast),
                          exponential_moving_average(data, slow))
        signal_line == exponential_moving_average(data, signal)
    IN <<macd_line, signal_line, SSub(macd_line, signal_line)>>

macd(data, fast, slow, signal) ==
    LET ema_fast == exponential_moving_average(data, fast)
        ema_slow == exponential_moving_average(data, slow)
        macd_line == SSub(ema_fast, ema_slow)
        signal_line == exponential_moving_average(macd_line, signal)
        histogram == SSub(macd_line, signal_line)
    IN <<macd_line, signal_line, histogram>>

\* <<upper band, middle band, lower band>>
bollinger_bands_swapped(data, window, num_std) ==
    LET sma == simple_moving_average(data, window)
        std == RollingStd(data, window)
    IN <<SSub(sma, SScale(std, Num(num_std))), sma, SAdd(sma, SScale(std, Num(num_std)))>>

bollinger_bands(data, window, num_std) ==
    LET sma == simple_moving_average(data, window)
        std == RollingStd(data, window)
        upper_band == SAdd(sma, SScale(std, Num(num_std)))
        lower_band == SSub(sma, SScale(std, Num(num_std)))
    IN <<upper_band, sma, lower_band>>

\* <<%K, %D>>
stochastic_oscillator_from_high(high_, low_, close_, k_period, d_period) ==
    LET lowest_low == RollingMin(low_, k_period)
        highest_high == RollingMax(high_, k_period)
        k_percent == SScale(SDiv(SSub(close_, highest_high),
                                 SSub(highest_high, lowest_low)), Num(100))
    IN <<k_percent, RollingMean(k_percent, d_period, d_period)>>

stochastic_oscillator(high_, low_, close_, k_period, d_period) ==
    LET lowest_low == RollingMin(low_, k_period)
        highest_high == RollingMax(high_, k_period)
        k_percent == SScale(SDiv(SSub(close_, lowest_low),
                                 SSub(highest_high, lowest_low)), Num(100))
        d_percent == RollingMean(k_percent, d_period, d_period)
    IN <<k_percent, d_percent>>

\* %R measured from the lowest low instead of the highest high
williams_r_from_low(high_, low_, close_, period) ==
    LET highest_high == RollingMax(high_, period)
        lowest_low == RollingMin(low_, period)
    IN SScale(SDiv(SSub(close_, lowest_low),
                   SSub(highest_high, lowest_low)), Num(-100))

williams_r(high_, low_, close_, period) ==
    LET highest_high == RollingMax(high_, period)
        lowest_low == RollingMin(low_, period)
    IN SScale(SDiv(SSub(highest_high, close_),
                   SSub(highest_high, lowest_low)), Num(-100))

average_true_range(high_, low_, close_, period) ==
    LET tr1 == SSub(high_, low_)
        tr2 == SAbs(SSub(high_, Shift(close_)))
        tr3 == SAbs(SSub(low_, Shift(close_)))
        true_range == RowMax(tr1, tr2, tr3)
    IN RollingMean(true_range, period, period)

---------------------------------------------------------------------------
(* State: the series of one input frame, and the last call made on it *)

\* TechnicalIndicators.__init__: `pass`, the instance has no attributes
__init__ == <<>>

Idle == op = "none"

\* no dashboard session
NoApp == session = <<>> /\ now = 0 /\ requests = <<>>

Call(name, a, result) ==
    /\ Idle
    /\ op' = name
    /\ args' = a
    /\ out' = result
    /\ UNCHANGED <<close, high, low, frames, self, ncalls, app_vars>>

\* a frame with only a close column: the pipeline sets high = low = close
Init ==
    /\ close \in SeriesUpTo({Num(p) : p \in Prices}, MaxLen)
    /\ high = close
    /\ low = close
    /\ op = "none"
    /\ args = <<>>
    /\ out = <<>>
    /\ frames = <<>>
    /\ self = __init__
    /\ ncalls = 0
    /\ NoApp

CallSMA ==
    \E window \in 1..MaxWindow :
        Call("simple_moving_average", <<window>>,
             <<simple_moving_average(close, window)>>)

CallEMA ==
    \E window \in 1..MaxWindow :
        Call("exponential_moving_average", <<window>>,
             <<exponential_moving_average(close, window)>>)

CallRSI ==
    \E window \in 1..MaxWindow :
        Call("relative_strength_index", <<window>>,
             <<relative_strength_index(close, window)>>)

CallMACD ==
    \E fast \in 1..MaxWindow, slow \in 1..MaxWindow, signal \in 1..MaxWindow :
        Call("macd", <<fast, slow, signal>>, macd(close, fast, slow, signal))

CallBollinger ==
    \E window \in 1..MaxWindow, num_std \in 0..MaxStd :
        Call("bollinger_bands", <<window, num_std>>,
             bollinger_bands(close, window, num_std))

\* the call returns; the engine keeps nothing of it
Return ==
    /\ ~Idle
    /\ op' = "none"
    /\ args' = <<>>
    /\ out' = <<>>
    /\ UNCHANGED <<close, high, low, frames, self, ncalls, app_vars>>

Next ==
    \/ CallSMA
    \/ CallEMA
    \/ CallRSI
    \/ CallMACD
    \/ CallBollinger
    \/ Return

Spec == Init /\ [][Next]_vars

\* a frame with high, low and close columns, as the OHLC endpoint delivers
\* it; forward-filling a missing high or low can leave close outside them
InitHLC ==
    /\ \E n \in 1..MaxRows :
          /\ high \in [1..n -> {Num(p) : p \in Extremes}]
          /\ low \in [1..n -> {Num(p) : p \in Extremes}]
          /\ close \in [1..n -> {Num(p) : p \in Closes}]
    /\ \A i \in 1..Len(high) : Le(low[i], high[i])
    /\ op = "none"
    /\ args = <<>>
    /\ out = <<>>
    /\ frames = <<>>
    /\ self = __init__
    /\ ncalls = 0
    /\ NoApp

CallStochastic ==
    \E k_period \in 1..MaxWindow, d_period \in 1..MaxWindow :
        Call("stochastic_oscillator", <<k_period, d_period>>,
             stochastic_oscillator(high, low, close, k_period, d_period))

CallWilliamsR ==
    \E period \in 1..MaxWindow :
        Call("williams_r", <<period>>, <<williams_r(high, low, close, period)>>)

CallATR ==
    \E period \in 1..MaxWindow :
        Call("average_true_range", <<period>>,
             <<average_true_range(high, low, close, period)>>)

NextHLC ==
    \/ CallStochastic
    \/ CallWilliamsR
    \/ CallATR
    \/ Return

SpecHLC == InitHLC /\ [][NextHLC]_vars

---------------------------------------------------------------------------
(* DataFrames and the pipeline: calculate_all_indicators *)

Columns(df) == DOMAIN df.cols
NRows(df) == Len(df.index)

\* df[name] = series: adds the column or replaces it; the series comes
\* from the frame's own columns, so it is aligned with the frame's index
SetColumn(df, name, series) == [df EXCEPT !.cols = (name :> series) @@ df.cols]

\* the assignments of a tuple of series to the columns named, in order
SetColumns(df, names, series) ==
    [df EXCEPT !.cols = [c \in DOMAIN df.cols \cup {names[i] : i \in 1..Len(names)} |->
                            IF \E i \in 1..Len(names) : names[i] = c
                            THEN series[CHOOSE i \in 1..Len(names) : names[i] = c]
                            ELSE df.cols[c]]]

\* a name bound to the same DataFrame object instead of a copy of it
df_alias(heap, ref) == [heap |-> heap, ref |-> ref]

\* df.copy(): a new DataFrame object with the same index and values
df_copy(heap, ref) == [heap |-> Append(heap, heap[ref]), ref |-> Len(heap) + 1]

\* the default parameters of the indicator functions and the windows the
\* pipeline passes
SMA_20_window == 20
SMA_50_window == 50
EMA_12_window == 12
EMA_26_window == 26
RSI_window == 14
MACD_fast == 12
MACD_slow == 26
MACD_signal == 9
BB_window == 20
BB_num_std == 2
Stoch_k_period == 14
Stoch_d_period == 3
Williams_period == 14
ATR_period == 14

Vocabulary == {"SMA_20", "SMA_50", "EMA_12", "EMA_26", "RSI", "MACD",
               "Bollinger_Bands", "Stochastic", "Williams_R", "ATR"}

\* the "close or price" check and the filling of the missing OHLC columns
\* (the caller has checked that close or price is there)
normalize_close_from_price(df) ==
    LET c == IF "price" \in Columns(df)
             THEN SetColumn(df, "close", df.cols["price"]) ELSE df
        o == SetColumn(c, "open", c.cols["close"])
        h == SetColumn(o, "high", o.cols["close"])
    IN SetColumn(h, "low", h.cols["close"])

normalize(df) ==
    LET c == IF "close" \notin Columns(df)
             THEN SetColumn(df, "close", df.cols["price"]) ELSE df
        o == IF "open" \notin Columns(c)
             THEN SetColumn(c, "open", c.cols["close"]) ELSE c
        h == IF "high" \notin Columns(o)
             THEN SetColumn(o, "high", o.cols["close"]) ELSE o
    IN IF "low" \notin Columns(h)
       THEN SetColumn(h, "low", h.cols["close"]) ELSE h

\* one pass of the loop body for a name that is not in the vocabulary,
\* had the chain of elif ended in an else that records the name
unknown_indicator_recorded(df, indicator) ==
    SetColumn(df, indicator, [i \in 1..NRows(df) |-> NaN])

unknown_indicator(df, indicator) == df

\* the SMA_50 branch reading the SMA_20 column when it is already there
sma_50_branch_chained(df) ==
    SetColumn(df, "SMA_50",
              simple_moving_average(IF "SMA_20" \in Columns(df) THEN df.cols["SMA_20"]
                                    ELSE df.cols["close"], SMA_50_window))

sma_50_branch(df) ==
    SetColumn(df, "SMA_50", simple_moving_average(df.cols["close"], SMA_50_window))

\* one pass of the loop body: the if / elif chain on the indicator name
apply_indicator(df, indicator) ==
    CASE indicator = "SMA_20" ->
           SetColumn(df, "SMA_20", simple_moving_average(df.cols["close"], SMA_20_window))
      [] indicator = "SMA_50" -> sma_50_branch(df)
      [] indicator = "EMA_12" ->
           SetColumn(df, "EMA_12", exponential_moving_average(df.cols["close"], EMA_12_window))
      [] indicator = "EMA_26" ->
           SetColumn(df, "EMA_26", exponential_moving_average(df.cols["close"], EMA_26_window))
      [] indicator = "RSI" ->
           SetColumn(df, "RSI", relative_strength_index(df.cols["close"], RSI_window))
      [] indicator = "MACD" ->
           SetColumns(df, <<"MACD", "MACD_Signal", "MACD_Histogram">>,
                      macd(df.cols["close"], MACD_fast, MACD_slow, MACD_signal))
      [] indicator = "Bollinger_Bands" ->
           SetColumns(df, <<"BB_Upper", "BB_Middle", "BB_Lower">>,
                      bollinger_bands(df.cols["close"], BB_window, BB_num_std))
      [] indicator = "Stochastic" ->
           SetColumns(df, <<"Stoch_K", "Stoch_D">>,
                      stochastic_oscillator(df.cols["high"], df.cols["low"], df.cols["close"],
                                            Stoch_k_period, Stoch_d_period))
      [] indicator = "Williams_R" ->
           SetColumn(df, "Williams_R",
                     williams_r(df.cols["high"], df.cols["low"], df.cols["close"],
                                Williams_period))
      [] indicator = "ATR" ->
           SetColumn(df, "ATR",
                     average_true_range(df.cols["high"], df.cols["low"], df.cols["close"],
                                        ATR_period))
      [] OTHER -> unknown_indicator(df, indicator)

\* for indicator in selected_indicators: the frame after the first n names
RECURSIVE apply_selected(_, _, _)
apply_selected(df, selected_indicators, n) ==
    IF n = 0 THEN df
    ELSE apply_indicator(apply_selected(df, selected_indicators, n - 1),
                         selected_indicators[n])

ValueError == [raised |-> "ValueError",
               message |-> "DataFrame must contain 'close' or 'price' column"]

\* the pipeline without the "close or price" check: a frame without a
\* price column comes back as it is
calculate_all_indicators_unchecked(self_, heap, df, selected_indicators) ==
    LET c == df_copy(heap, df)
        result_df == c.heap[c.ref]
    IN [self |-> self_,
        heap |-> [c.heap EXCEPT ![c.ref] =
                     IF "close" \notin Columns(result_df) /\ "price" \notin Columns(result_df)
                     THEN result_df
                     ELSE apply_selected(normalize(result_df), selected_indicators,
                                         Len(selected_indicators))],
        ret |-> [returned |-> c.ref]]

\* the pipeline remembering on the instance which names it has computed
\* and leaving those out of later calls
calculate_all_indicators_remembering(self_, heap, df, selected_indicators) ==
    LET c == df_copy(heap, df)
        result_df == c.heap[c.ref]
        done == IF "computed" \in DOMAIN self_ THEN self_.computed ELSE {}
        todo == SelectSeq(selected_indicators, LAMBDA n : n \notin done)
    IN IF "close" \notin Columns(result_df) /\ "price" \notin Columns(result_df)
       THEN [self |-> self_, heap |-> heap, ret |-> ValueError]
       ELSE [self |-> [computed |-> done \cup {selected_indicators[i] :
                                                 i \in 1..Len(selected_indicators)}],
             heap |-> [c.heap EXCEPT ![c.ref] =
                          apply_selected(normalize(result_df), todo, Len(todo))],
             ret |-> [returned |-> c.ref]]

\* calculate_all_indicators(self, df, selected_indicators): the heap, the
\* instance and what the call returns (a reference to the result frame) or
\* raises
calculate_all_indicators(self_, heap, df, selected_indicators) ==
    LET c == df_copy(heap, df)
        result_df == c.heap[c.ref]
    IN IF "close" \notin Columns(result_df) /\ "price" \notin Columns(result_df)
       THEN [self |-> self_, heap |-> heap, ret |-> ValueError]
       ELSE [self |-> self_,
             heap |-> [c.heap EXCEPT ![c.ref] =
                          apply_selected(normalize(result_df), selected_indicators,
                                         Len(selected_indicators))],
             ret |-> [returned |-> c.ref]]

\* the frames the pipeline is given: which columns they have ...
ColumnSets == {{"price"}, {"close"}, {"close", "price"}, {"high", "low", "close"},
               {"open", "high", "low", "close", "price"},
               {"open", "high", "low", "volume"}, {"volume"}}

\* ... and the rows they are made of
RowValues == {[open |-> 1, high |-> 3, low |-> 1, close |-> 2, price |-> 2, volume |-> 7],
              [open |-> 2, high |-> 4, low |-> 2, close |-> 4, price |-> 3, volume |-> 0]}

MakeFrame(columns, rows) ==
    [index |-> [i \in 1..Len(rows) |-> i],
     cols |-> [c \in columns |-> [i \in 1..Len(rows) |-> Num(rows[i][c])]]]

InputFrames ==
    {MakeFrame(columns, rows) :
        columns \in ColumnSets,
        rows \in UNION {[1..n -> RowValues] : n \in 0..MaxFrameRows}}

\* frames long enough for the 14-row windows to fill, their rows cycling
\* through the row values
RowCycle == <<[open |-> 1, high |-> 3, low |-> 1, close |-> 2, price |-> 2, volume |-> 7],
              [open |-> 2, high |-> 4, low |-> 2, close |-> 4, price |-> 3, volume |-> 0],
              [open |-> 3, high |-> 3, low |-> 3, close |-> 3, price |-> 5, volume |-> 0]>>
LongColumnSets == {{"price"}, {"close"}, {"high", "low", "close"}}
LongFrames ==
    {MakeFrame(columns, [i \in 1..LongRows |-> RowCycle[((i * k) % 3) + 1]]) :
        columns \in LongColumnSets, k \in 1..2}

\* the request lists: the selectable names and one the vocabulary lacks,
\* in any order and with repeats
Names == Vocabulary \cup {"FOO"}
Requests == {<<>>} \cup {<<a>> : a \in Names} \cup {<<a, b>> : a \in Names, b \in Names}

\* on the long frames the requests are those of the windowed indicators:
\* the exponential averages of fifteen rows leave the range of the
\* integers the fractions are made of
LongNames == {"RSI", "Stochastic", "Williams_R", "ATR"}
LongRequests == {<<a>> : a \in LongNames} \cup {<<a, b>> : a \in LongNames, b \in LongNames}
RequestsFor(df) == IF NRows(df) > MaxFrameRows THEN LongRequests ELSE Requests

InitPipeline ==
    /\ frames \in {<<df>> : df \in InputFrames \cup LongFrames}
    /\ close = <<>> /\ high = <<>> /\ low = <<>>
    /\ op = "none"
    /\ args = <<>>
    /\ out = <<>>
    /\ self = __init__
    /\ ncalls = 0
    /\ NoApp

\* the call is over: what it returned or raised, the heap and the instance
Completes(r) == out' = r.ret /\ frames' = r.heap /\ self' = r.self

CallCalculateAllIndicators ==
    \E selected_indicators \in RequestsFor(frames[1]) :
        /\ Idle
        /\ ncalls < MaxCalls
        /\ ncalls' = ncalls + 1
        /\ op' = "calculate_all_indicators"
        /\ args' = <<selected_indicators>>
        /\ Completes(calculate_all_indicators(self, frames, 1, selected_indicators))
        /\ UNCHANGED <<close, high, low, app_vars>>

\* the caller is done with what the call returned; its own frame stays
Release ==
    /\ ~Idle
    /\ op' = "none"
    /\ args' = <<>>
    /\ out' = <<>>
    /\ frames' = <<frames[1]>>
    /\ UNCHANGED <<close, high, low, self, ncalls, app_vars>>

NextPipeline ==
    \/ CallCalculateAllIndicators
    \/ Release

SpecPipeline == InitPipeline /\ [][NextPipeline]_vars

---------------------------------------------------------------------------
(* get_trend_analysis(df): the labels read off the last row of a frame     *)
(* that has indicator columns                                              *)

\* the first row, df.iloc[0], in place of the last
iloc_first(df) == [c \in Columns(df) |-> df.cols[c][1]]

\* df.iloc[-1] of a frame that has rows
iloc_last(df) == [c \in Columns(df) |-> df.cols[c][NRows(df)]]

\* df.iloc[-1] of a frame without rows
IndexError == [raised |-> "IndexError",
               message |-> "single positional indexer is out-of-bounds"]

\* the thresholds of the RSI labels
RSI_overbought == 70
RSI_oversold == 30

\* the trend with ties counted as bullish
ma_trend_or_equal(sma_20, sma_50) == IF Ge(sma_20, sma_50) THEN "Bullish" ELSE "Bearish"

ma_trend(sma_20, sma_50) == IF Gt(sma_20, sma_50) THEN "Bullish" ELSE "Bearish"

\* the label with the thresholds counted in
rsi_signal_inclusive(rsi) ==
    IF Ge(rsi, Num(RSI_overbought)) THEN "Overbought"
    ELSE IF Le(rsi, Num(RSI_oversold)) THEN "Oversold"
    ELSE "Neutral"

rsi_signal(rsi) ==
    IF Gt(rsi, Num(RSI_overbought)) THEN "Overbought"
    ELSE IF Lt(rsi, Num(RSI_oversold)) THEN "Oversold"
    ELSE "Neutral"

macd_signal(macd_line, signal_line) ==
    IF Gt(macd_line, signal_line) THEN "Bullish" ELSE "Bearish"

\* analysis, key by key, for the last row `latest` of df
trend_entries(df, latest) ==
    (IF "MACD" \in Columns(df) /\ "MACD_Signal" \in Columns(df)
     THEN "macd_signal" :> macd_signal(latest["MACD"], latest["MACD_Signal"])
     ELSE <<>>)
    @@ (IF "RSI" \in Columns(df)
        THEN "rsi_signal" :> rsi_signal(latest["RSI"])
        ELSE <<>>)
    @@ (IF "SMA_20" \in Columns(df) /\ "SMA_50" \in Columns(df)
        THEN "ma_trend" :> ma_trend(latest["SMA_20"], latest["SMA_50"])
        ELSE <<>>)

get_trend_analysis(self_, heap, df) ==
    IF NRows(heap[df]) = 0
    THEN [self |-> self_, heap |-> heap, ret |-> IndexError]
    ELSE [self |-> self_, heap |-> heap,
          ret |-> [returned |-> trend_entries(heap[df], iloc_last(heap[df]))]]

\* the frames the analysis is given: any of the columns it reads, the last
\* row drawn from values on both sides of every comparison, the rows
\* before it saying bullish and overbought
TrendColumns == {"SMA_20", "SMA_50", "RSI", "MACD", "MACD_Signal"}
TrendValues ==
    [SMA_20 |-> {Num(1), Num(2), NaN},
     SMA_50 |-> {Num(1), Num(2), NaN},
     RSI |-> {Num(0), Num(29), <<299999, 10000>>, Num(30), Num(50), Num(70),
              <<700001, 10000>>, Num(71), Num(100), NaN},
     MACD |-> {Num(-1), Num(0), NaN},
     MACD_Signal |-> {Num(-1), Num(0), NaN}]
EarlierRow == [SMA_20 |-> Num(2), SMA_50 |-> Num(1), RSI |-> Num(71),
               MACD |-> Num(0), MACD_Signal |-> Num(-1)]
LastRows(columns) == {r \in [columns -> UNION {TrendValues[c] : c \in TrendColumns}] :
                         \A c \in columns : r[c] \in TrendValues[c]}
TrendFrame(columns, n, last) ==
    [index |-> [i \in 1..n |-> i],
     cols |-> [c \in columns |-> [i \in 1..n |-> IF i = n THEN last[c] ELSE EarlierRow[c]]]]
TrendFrames ==
    UNION {{TrendFrame(columns, 0, <<>>)} \cup
           {TrendFrame(columns, n, last) : n \in 1..MaxFrameRows, last \in LastRows(columns)} :
              columns \in SUBSET TrendColumns}

InitTrend ==
    /\ frames \in {<<df>> : df \in TrendFrames}
    /\ close = <<>> /\ high = <<>> /\ low = <<>>
    /\ op = "none"
    /\ args = <<>>
    /\ out = <<>>
    /\ self = __init__
    /\ ncalls = 0
    /\ NoApp

CallGetTrendAnalysis ==
    /\ Idle
    /\ ncalls < MaxCalls
    /\ ncalls' = ncalls + 1
    /\ op' = "get_trend_analysis"
    /\ args' = <<>>
    /\ Completes(get_trend_analysis(self, frames, 1))
    /\ UNCHANGED <<close, high, low, app_vars>>

NextTrend ==
    \/ CallGetTrendAnalysis
    \/ Release

SpecTrend == InitTrend /\ [][NextTrend]_vars

---------------------------------------------------------------------------
(* The dashboard script (src/app.py): its session cache and fetch_data     *)

None == [none |-> TRUE]

\* a datetime, in seconds
datetime(t) == [seconds |-> t]

\* the age in seconds above which the cache is refetched
STALE_SECONDS == 300

\* the seconds between two reruns: half the staleness age and one more,
\* so that two reruns are 300, 301 or 302 seconds apart
Delays == {STALE_SECONDS \div 2, STALE_SECONDS \div 2 + 1}

\* the widget values of a run
Periods == {"7", "30"}
Comparisons == {<<>>, <<"ethereum", "cardano">>}

\* "if key not in st.session_state: st.session_state.key = None"
init_session_state(s) ==
    [k \in DOMAIN s \cup {"last_update", "btc_data", "historical_data"} |->
        IF k \in DOMAIN s THEN s[k] ELSE None]

\* the "Refresh Data Now" button
refresh_button(s, pressed) ==
    IF pressed THEN [s EXCEPT !["last_update"] = None] ELSE s

\* the cache counted stale at the threshold already
needs_update_inclusive(last_update, current_time) ==
    \/ last_update = None
    \/ current_time - last_update.seconds >= STALE_SECONDS

\* last_update is None or (current_time - last_update).total_seconds() > 300
needs_update(last_update, current_time) ==
    \/ last_update = None
    \/ current_time - last_update.seconds > STALE_SECONDS

\* the requests of a refetch, in the order they are sent
fetch_plan(time_period, compare_cryptos) ==
    <<[call |-> "get_current_price", coin |-> "bitcoin", days |-> "-"],
      [call |-> "get_historical_data", coin |-> "bitcoin", days |-> time_period]>>
    \o [i \in 1..Len(compare_cryptos) |->
            [call |-> "get_historical_data", coin |-> compare_cryptos[i],
             days |-> time_period]]

\* what the API answers to a request at time t
Response(request, t) == [request |-> request, as_of |-> t]

\* the requests sent when request number fail_at raises (0: none does):
\* the first exception ends the try block
sent_requests(plan, fail_at) ==
    [i \in 1..(IF fail_at = 0 THEN Len(plan) ELSE fail_at) |->
        [request |-> plan[i], ok |-> i # fail_at]]

\* the four assignments to st.session_state after the last request
store_all(s, plan, compare_cryptos, current_time) ==
    [k \in DOMAIN s \cup {"btc_data", "historical_data", "comparison_data", "last_update"} |->
        CASE k = "btc_data" -> Response(plan[1], current_time)
          [] k = "historical_data" -> Response(plan[2], current_time)
          [] k = "comparison_data" ->
                [c \in {compare_cryptos[i] : i \in 1..Len(compare_cryptos)} |->
                    Response([call |-> "get_historical_data", coin |-> c,
                              days |-> plan[2].days], current_time)]
          [] k = "last_update" -> datetime(current_time)
          [] OTHER -> s[k]]

\* fetch_data storing each answer in the session as soon as it arrives
fetch_data_eager(s, current_time, time_period, compare_cryptos, fail_at) ==
    IF needs_update(s["last_update"], current_time)
    THEN [session |->
             IF fail_at = 0
             THEN store_all(s, fetch_plan(time_period, compare_cryptos),
                            compare_cryptos, current_time)
             ELSE [k \in DOMAIN s |->
                     IF k = "btc_data" /\ fail_at > 1
                     THEN Response(fetch_plan(time_period, compare_cryptos)[1], current_time)
                     ELSE IF k = "historical_data" /\ fail_at > 2
                     THEN Response(fetch_plan(time_period, compare_cryptos)[2], current_time)
                     ELSE s[k]],
          requests |-> sent_requests(fetch_plan(time_period, compare_cryptos), fail_at),
          ret |-> fail_at = 0]
    ELSE [session |-> s, requests |-> <<>>, ret |-> TRUE]

\* fetch_data(): the session, the requests sent and the value returned
fetch_data(s, current_time, time_period, compare_cryptos, fail_at) ==
    IF needs_update(s["last_update"], current_time)
    THEN [session |->
             IF fail_at = 0
             THEN store_all(s, fetch_plan(time_period, compare_cryptos),
                            compare_cryptos, current_time)
             ELSE s,
          requests |-> sent_requests(fetch_plan(time_period, compare_cryptos), fail_at),
          ret |-> fail_at = 0]
    ELSE [session |-> s, requests |-> <<>>, ret |-> TRUE]

\* "if fetch_data():" and the three reads of the session that follow
main_reads(s, fetched) ==
    IF ~fetched THEN "skipped"
    ELSE IF {"btc_data", "historical_data", "comparison_data"} \subseteq DOMAIN s
    THEN "read"
    ELSE "AttributeError"

InitApp ==
    /\ session = <<>>
    /\ now = 0
    /\ requests = <<>>
    /\ close = <<>> /\ high = <<>> /\ low = <<>>
    /\ op = "none"
    /\ args = <<>>
    /\ out = <<>>
    /\ frames = <<>>
    /\ self = __init__
    /\ ncalls = 0

\* a rerun starts: the clock has moved on, the session keys exist, the
\* button and the selections are read
RunScript ==
    \E d \in Delays, pressed \in BOOLEAN, time_period \in Periods,
       compare_cryptos \in Comparisons :
        /\ op # "script"
        /\ now + d <= MaxTime
        /\ now' = now + d
        /\ session' = refresh_button(init_session_state(session), pressed)
        /\ op' = "script"
        /\ args' = <<pressed, time_period, compare_cryptos>>
        /\ out' = <<>>
        /\ requests' = <<>>
        /\ UNCHANGED <<close, high, low, frames, self, ncalls>>

FetchDone(r) ==
    /\ session' = r.session
    /\ requests' = r.requests
    /\ out' = [returned |-> r.ret, main |-> main_reads(r.session, r.ret)]

\* the run goes on: fetch_data() and what the script reads when it is true
FetchData ==
    /\ op = "script"
    /\ \E fail_at \in 0..(2 + Len(args[3])) :
          /\ op' = "fetch_data"
          /\ FetchDone(fetch_data(session, now, args[2], args[3], fail_at))
          /\ UNCHANGED <<close, high, low, frames, self, ncalls, args, now>>

NextApp ==
    \/ RunScript
    \/ FetchData

SpecApp == InitApp /\ [][NextApp]_vars

---------------------------------------------------------------------------
(* calculate_fear_greed_index (src/utils.py)                               *)

\* max(0, min(100, x)) for a finite x
clamp_0_100(x) ==
    IF Gt(Num(0), IF Lt(x, Num(100)) THEN x ELSE Num(100))
    THEN Num(0)
    ELSE IF Lt(x, Num(100)) THEN x ELSE Num(100)

\* rsi if 0 <= rsi <= 100 else 50
rsi_score(rsi) == IF Le(Num(0), rsi) /\ Le(rsi, Num(100)) THEN rsi ELSE Num(50)

\* the weighted average of the four scores
fear_greed_index(rsi, volatility, volume_change, price_change) ==
    Add(Add(Add(Mul(rsi_score(rsi), <<3, 10>>),
                Mul(clamp_0_100(Sub(Num(100), Mul(volatility, Num(2)))), <<1, 4>>)),
            Mul(clamp_0_100(Add(Num(50), volume_change)), <<1, 4>>)),
        Mul(clamp_0_100(Add(Num(50), price_change)), <<1, 5>>))

sentiment(index) ==
    IF Ge(index, Num(75)) THEN "Extreme Greed"
    ELSE IF Ge(index, Num(55)) THEN "Greed"
    ELSE IF Ge(index, Num(45)) THEN "Neutral"
    ELSE IF Ge(index, Num(25)) THEN "Fear"
    ELSE "Extreme Fear"

\* round(x, 1) of a finite x >= 0: the nearest multiple of 1/10; a value
\* half-way between two of them is not exact as a float and goes to either
round_1(x) ==
    LET tenths == (10 * x[1]) \div x[2]
        rest == 10 * x[1] - tenths * x[2]
    IN IF 2 * rest < x[2] THEN {Norm(tenths, 10)}
       ELSE IF 2 * rest > x[2] THEN {Norm(tenths + 1, 10)}
       ELSE {Norm(tenths, 10), Norm(tenths + 1, 10)}

\* the tuples (index_value, sentiment) the function can return
calculate_fear_greed_index(rsi, volatility, volume_change, price_change) ==
    {<<index_value, sentiment(fear_greed_index(rsi, volatility, volume_change, price_change))>> :
        index_value \in round_1(fear_greed_index(rsi, volatility, volume_change, price_change))}

\* the inputs drawn: RSI values in and out of range and undefined, finite
\* percentages that reach both ends of every score
RsiInputs == {NaN, Num(-5), Num(0), Num(30), <<999, 10>>, Num(100), Num(150)}
VolatilityInputs == {Num(0), Num(10), <<45, 2>>, Num(60)}
VolumeChangeInputs == {Num(-60), Num(0), Num(25), Num(60)}
PriceChangeInputs == {Num(-60), <<-251, 20>>, Num(0), <<1, 4>>, Num(60)}

InitSentiment ==
    /\ args \in {<<rsi, volatility, volume_change, price_change>> :
                    rsi \in RsiInputs, volatility \in VolatilityInputs,
                    volume_change \in VolumeChangeInputs,
                    price_change \in PriceChangeInputs}
    /\ op = "none"
    /\ out = <<>>
    /\ close = <<>> /\ high = <<>> /\ low = <<>>
    /\ frames = <<>>
    /\ self = <<>>
    /\ ncalls = 0
    /\ NoApp

CallFearGreedIndex ==
    /\ Idle
    /\ op' = "calculate_fear_greed_index"
    /\ out' \in calculate_fear_greed_index(args[1], args[2], args[3], args[4])
    /\ UNCHANGED <<close, high, low, args, frames, self, ncalls, app_vars>>

NextSentiment == CallFearGreedIndex

SpecSentiment == InitSentiment /\ [][NextSentiment]_vars

---------------------------------------------------------------------------
(* clean_data (src/utils.py)                                               *)

\* the positions 1..n whose flag is set, in ascending order
RECURSIVE KeptUpTo(_, _)
KeptUpTo(mask, n) ==
    IF n = 0 THEN <<>>
    ELSE IF mask[n] THEN Append(KeptUpTo(mask, n - 1), n) ELSE KeptUpTo(mask, n - 1)

\* the rows of df at the positions listed, in that order
TakeRows(df, positions) ==
    [index |-> [i \in 1..Len(positions) |-> df.index[positions[i]]],
     cols |-> [c \in Columns(df) |->
                 [i \in 1..Len(positions) |-> df.cols[c][positions[i]]]]]

\* df[mask] for a boolean mask
BoolIndex(df, mask) == TakeRows(df, KeptUpTo(mask, NRows(df)))

\* df[~df.index.duplicated(keep='first')]
drop_duplicated_index(df) ==
    BoolIndex(df, [i \in 1..NRows(df) |-> \A j \in 1..(i - 1) : df.index[j] # df.index[i]])

\* the frame left in the order it came in
sort_index_skipped(df) == df

\* df.sort_index(): ascending labels (they are unique by then)
sort_index(df) ==
    TakeRows(df, [k \in 1..NRows(df) |->
                    CHOOSE i \in 1..NRows(df) :
                        Cardinality({j \in 1..NRows(df) :
                                        \/ df.index[j] < df.index[i]
                                        \/ (df.index[j] = df.index[i] /\ j < i)}) = k - 1])

\* the last position <= i (the first >= i) holding a defined value, 0 if none
LastValid(x, i) ==
    IF \E j \in 1..i : ~IsNaN(x[j])
    THEN CHOOSE j \in 1..i : ~IsNaN(x[j]) /\ \A m \in (j + 1)..i : IsNaN(x[m])
    ELSE 0
NextValid(x, i) ==
    IF \E j \in i..Len(x) : ~IsNaN(x[j])
    THEN CHOOSE j \in i..Len(x) : ~IsNaN(x[j]) /\ \A m \in i..(j - 1) : IsNaN(x[m])
    ELSE 0

\* fillna(method='ffill'), fillna(method='bfill') of a column
ffill(x) == [i \in 1..Len(x) |-> IF LastValid(x, i) = 0 THEN NaN ELSE x[LastValid(x, i)]]
bfill(x) == [i \in 1..Len(x) |-> IF NextValid(x, i) = 0 THEN NaN ELSE x[NextValid(x, i)]]

\* interpolate() of a column: linear in the row number between two defined
\* values, the last defined value after it, nothing before the first
interpolate(x) ==
    [i \in 1..Len(x) |->
        IF LastValid(x, i) = 0 THEN NaN
        ELSE IF NextValid(x, i) = 0 THEN x[LastValid(x, i)]
        ELSE IF NextValid(x, i) = LastValid(x, i) THEN x[i]
        ELSE Add(x[LastValid(x, i)],
                 Mul(Sub(x[NextValid(x, i)], x[LastValid(x, i)]),
                     Norm(i - LastValid(x, i), NextValid(x, i) - LastValid(x, i))))]

\* the if / elif chain on fill_method; any other method fills nothing
fill_missing(df, fill_method) ==
    [df EXCEPT !.cols =
        [c \in Columns(df) |->
            CASE fill_method = "forward" -> ffill(df.cols[c])
              [] fill_method = "backward" -> bfill(df.cols[c])
              [] fill_method = "interpolate" -> interpolate(df.cols[c])
              [] OTHER -> df.cols[c]]]

\* df.dropna(): the rows without an undefined value
dropna(df) ==
    BoolIndex(df, [i \in 1..NRows(df) |-> \A c \in Columns(df) : ~IsNaN(df.cols[c][i])])

price_columns == <<"open", "high", "low", "close", "price">>

\* for col in price_columns: if col in df.columns: df = df[df[col] > 0]
RECURSIVE keep_positive(_, _)
keep_positive(df, n) ==
    IF n = 0 THEN df
    ELSE IF price_columns[n] \in Columns(keep_positive(df, n - 1))
    THEN BoolIndex(keep_positive(df, n - 1),
                   [i \in 1..NRows(keep_positive(df, n - 1)) |->
                       Gt(keep_positive(df, n - 1).cols[price_columns[n]][i], Num(0))])
    ELSE keep_positive(df, n - 1)

\* clean_data(df, fill_method): the heap and the reference returned
clean_data(heap, df, fill_method) ==
    [heap |-> Append(heap,
                     keep_positive(
                         dropna(fill_missing(sort_index(drop_duplicated_index(
                                    df_copy(heap, df).heap[df_copy(heap, df).ref])),
                                fill_method)),
                         Len(price_columns))),
     ret |-> [returned |-> Len(heap) + 1]]

\* the raw frames: timestamps that repeat and come in any order, prices
\* that are missing or zero, a volume that is missing or zero
RawTimestamps == {1, 2, 3}
RawRows == {[close |-> NaN, volume |-> Num(5)],
            [close |-> Num(2), volume |-> NaN],
            [close |-> Num(0), volume |-> Num(5)],
            [close |-> Num(3), volume |-> Num(0)]}
RawColumnSets == {{"close"}, {"close", "volume"}}
RawFrames ==
    {[index |-> index, cols |-> [c \in columns |-> [i \in 1..Len(rows) |-> rows[i][c]]]] :
        columns \in RawColumnSets,
        <<index, rows>> \in UNION {[1..n -> RawTimestamps] \X [1..n -> RawRows] :
                                      n \in 0..MaxRawRows}}
FillMethods == {"forward", "backward", "interpolate", "none"}

InitClean ==
    /\ frames \in {<<df>> : df \in RawFrames}
    /\ close = <<>> /\ high = <<>> /\ low = <<>>
    /\ op = "none"
    /\ args = <<>>
    /\ out = <<>>
    /\ self = <<>>
    /\ ncalls = 0
    /\ NoApp

Cleaned(r) == frames' = r.heap /\ out' = r.ret

CallCleanData ==
    \E fill_method \in FillMethods :
        /\ Idle
        /\ op' = "clean_data"
        /\ args' = <<fill_method>>
        /\ Cleaned(clean_data(frames, 1, fill_method))
        /\ UNCHANGED <<close, high, low, self, ncalls, app_vars>>

NextClean == CallCleanData

SpecClean == InitClean /\ [][NextClean]_vars

---------------------------------------------------------------------------
(* Reference definitions the claims are stated with: the textbook formulas, *)
(* computed directly from the observations of a window                      *)

RECURSIVE SumRange(_, _, _)
SumRange(x, a, b) == IF a > b THEN Num(0) ELSE Add(SumRange(x, a, b - 1), x[b])

MeanRange(x, a, b) == Div(SumRange(x, a, b), Num(b - a + 1))

\* EMA[1] = x[1], EMA[i] = alpha * x[i] + (1 - alpha) * EMA[i-1]
RECURSIVE EmaRecurrence(_, _, _)
EmaRecurrence(x, span, i) ==
    IF i = 1 THEN x[1]
    ELSE LET alpha == Div(Num(2), Num(span + 1))
         IN Add(Mul(alpha, x[i]),
                Mul(Sub(Num(1), alpha), EmaRecurrence(x, span, i - 1)))

\* the rise and the fall of the price from position j-1 to j (j >= 2)
Rise(x, j) == IF Gt(x[j], x[j-1]) THEN Sub(x[j], x[j-1]) ELSE Num(0)
Fall(x, j) == IF Lt(x[j], x[j-1]) THEN Sub(x[j-1], x[j]) ELSE Num(0)

\* mean rise / fall over the window deltas ending at position i (i > window)
RECURSIVE SumRise(_, _, _)
SumRise(x, a, b) == IF a > b THEN Num(0) ELSE Add(SumRise(x, a, b - 1), Rise(x, b))
RECURSIVE SumFall(_, _, _)
SumFall(x, a, b) == IF a > b THEN Num(0) ELSE Add(SumFall(x, a, b - 1), Fall(x, b))
AvgGain(x, window, i) == Div(SumRise(x, i - window + 1, i), Num(window))
AvgLoss(x, window, i) == Div(SumFall(x, i - window + 1, i), Num(window))

\* two-pass sample variance of the window observations ending at position i
RECURSIVE SumSqDev(_, _, _, _)
SumSqDev(x, m, a, b) ==
    IF a > b THEN Num(0)
    ELSE Add(SumSqDev(x, m, a, b - 1), Mul(Sub(x[b], m), Sub(x[b], m)))

SampleStd(x, window, i) ==
    LET a == i - window + 1
    IN Sqrt(Div(SumSqDev(x, MeanRange(x, a, i), a, i), Num(window - 1)))

Positions == 1..Len(close)
IsSMA == op = "simple_moving_average"
IsEMA == op = "exponential_moving_average"
IsRSI == op = "relative_strength_index"
IsMACD == op = "macd"
IsBollinger == op = "bollinger_bands"
IsStochastic == op = "stochastic_oscillator"
IsWilliamsR == op = "williams_r"
IsATR == op = "average_true_range"

\* max(high - low, |high - previous close|, |low - previous close|) of row j >= 2
TrueRange(j) ==
    LET a == Sub(high[j], low[j])
        b == AbsV(Sub(high[j], close[j-1]))
        c == AbsV(Sub(low[j], close[j-1]))
    IN IF Ge(a, b) /\ Ge(a, c) THEN a ELSE IF Ge(b, c) THEN b ELSE c

RECURSIVE SumTrueRange(_, _)
SumTrueRange(a, b) == IF a > b THEN Num(0) ELSE Add(SumTrueRange(a, b - 1), TrueRange(b))

\* the lowest low and the highest high of the `period` rows ending at position i
LowestLow(period, i) ==
    CHOOSE v \in {low[j] : j \in (i - period + 1)..i} :
        \A j \in (i - period + 1)..i : Le(v, low[j])

HighestHigh(period, i) ==
    CHOOSE v \in {high[j] : j \in (i - period + 1)..i} :
        \A j \in (i - period + 1)..i : Ge(v, high[j])

---------------------------------------------------------------------------
(* C1: the SMA has one value per observation, each defined and equal to the *)
(* arithmetic mean of the observations max(0, i-w+1)..i: a partial window   *)
(* averages the observations seen so far.                                   *)
C1_SMAIsTrailingMean ==
    IsSMA =>
        /\ Len(out[1]) = Len(close)
        /\ \A i \in Positions :
              /\ IsFinite(out[1][i])
              /\ out[1][i] = MeanRange(close, Max2(1, i - args[1] + 1), i)

\* a window of 3 over 4 different-looking prices: positions 1, 2 are partial
C1_Witness ==
    /\ IsSMA /\ args[1] = 3 /\ Len(close) = 4
    /\ close[1] # close[2] /\ close[1] # close[4]
    /\ out[1][2] = MeanRange(close, 1, 2)
    /\ out[1][4] = MeanRange(close, 2, 4)

(* C2: EMA[0] = close[0], EMA[i] = a*close[i] + (1-a)*EMA[i-1] with         *)
(* a = 2/(span+1), defined at every index.                                  *)
C2_EMARecurrence ==
    IsEMA =>
        LET alpha == Div(Num(2), Num(args[1] + 1))
            ema == out[1]
        IN /\ Len(ema) = Len(close)
           /\ ema[1] = close[1]
           /\ \A i \in Positions :
                 /\ IsFinite(ema[i])
                 /\ i >= 2 => ema[i] = Add(Mul(alpha, close[i]),
                                           Mul(Sub(Num(1), alpha), ema[i-1]))

\* a span above 1 on a series that moves: the smoothed value lags the price
C2_Witness ==
    /\ IsEMA /\ args[1] >= 2 /\ Len(close) >= 3
    /\ out[1][1] = close[1]
    /\ out[1][3] # close[3]
    /\ out[1][3] # out[1][2]

(* C3: RSI lies in [0, 100] wherever it is defined; where the window holds  *)
(* `window` price changes (index >= window), it is 100 when the average     *)
(* loss is 0 and the average gain positive, and undefined when both are 0.  *)
C3_RSIRangeAndZeroLoss ==
    IsRSI =>
        \A i \in Positions :
            /\ ~IsNaN(out[1][i]) => Ge(out[1][i], Num(0)) /\ Le(out[1][i], Num(100))
            /\ i > args[1] =>
                  LET g == AvgGain(close, args[1], i)
                      l == AvgLoss(close, args[1], i)
                  IN /\ (l = Num(0) /\ Gt(g, Num(0))) => out[1][i] = Num(100)
                     /\ (l = Num(0) /\ g = Num(0)) => IsNaN(out[1][i])

\* one call that shows all three: a rising window, a flat one, a mixed one
C3_Witness ==
    /\ IsRSI /\ args[1] = 1 /\ Len(close) = 4
    /\ out[1][2] = Num(100)
    /\ IsNaN(out[1][3])
    /\ out[1][4] = Num(0)

C5_FirstWindowPointsUndefined ==
    IsRSI =>
        \A i \in Positions : i <= args[1] => IsNaN(out[1][i])

(* C6: MACD line = EMA(fast) - EMA(slow), signal = EMA of the MACD line     *)
(* with span `signal`, histogram = MACD line - signal, all defined at every *)
(* index.                                                                   *)
C6_MACDIdentities ==
    IsMACD =>
        LET macd_line == out[1]
            signal_line == out[2]
            histogram == out[3]
        IN \A i \in Positions :
              /\ IsFinite(macd_line[i]) /\ IsFinite(signal_line[i]) /\ IsFinite(histogram[i])
              /\ macd_line[i] = Sub(EmaRecurrence(close, args[1], i),
                                    EmaRecurrence(close, args[2], i))
              /\ signal_line[i] = EmaRecurrence(macd_line, args[3], i)
              /\ histogram[i] = Sub(macd_line[i], signal_line[i])

\* fast < slow with a smoothing signal on a moving series: three different
\* non-zero values at the last index, all zero at index 0
C6_Witness ==
    /\ IsMACD /\ args[1] < args[2] /\ args[3] >= 2 /\ Len(close) >= 3
    /\ out[1][1] = Num(0) /\ out[2][1] = Num(0) /\ out[3][1] = Num(0)
    /\ out[1][3] # Num(0) /\ out[3][3] # Num(0)
    /\ out[2][3] # out[1][3]

(* C7: wherever the three Bollinger bands are defined,                      *)
(* upper >= middle >= lower.                                                *)
C7_BandsOrdered ==
    IsBollinger =>
        \A i \in Positions :
            (~IsNaN(out[1][i]) /\ ~IsNaN(out[2][i]) /\ ~IsNaN(out[3][i])) =>
                Ge(out[1][i], out[2][i]) /\ Ge(out[2][i], out[3][i])

\* a row whose bands are strictly apart
C7_Witness ==
    /\ IsBollinger /\ args[2] > 0
    /\ \E i \in Positions : Gt(out[1][i], out[2][i]) /\ Gt(out[2][i], out[3][i])

BandsAt(i, window, num_std) ==
    /\ IsFinite(out[1][i]) /\ IsFinite(out[3][i])
    /\ Sub(out[1][i], out[2][i]) = Mul(Num(num_std), SampleStd(close, window, i))
    /\ Sub(out[2][i], out[3][i]) = Mul(Num(num_std), SampleStd(close, window, i))

MiddleIsSMA(window) ==
    \A i \in Positions :
        /\ IsFinite(out[2][i])
        /\ out[2][i] = MeanRange(close, Max2(1, i - window + 1), i)

(* C8 as claimed: for every window >= 1 the middle band is SMA(window); the *)
(* upper and lower bands are undefined at the first window-1 points and,    *)
(* from index window-1 on, defined and num_std sample standard deviations   *)
(* away from the middle.                                                    *)
C8_BandsDefinedFromFullWindow ==
    IsBollinger =>
        /\ MiddleIsSMA(args[1])
        /\ \A i \in Positions :
              IF i < args[1]
              THEN IsNaN(out[1][i]) /\ IsNaN(out[3][i])
              ELSE BandsAt(i, args[1], args[2])

(* C8 amended: the same for every window >= 2; with window = 1 the sample   *)
(* standard deviation of a single observation does not exist and the upper  *)
(* and lower bands are undefined at every index.                            *)
C8_BandsDefinedFromFullWindowOfTwo ==
    IsBollinger =>
        /\ MiddleIsSMA(args[1])
        /\ \A i \in Positions :
              IF i < args[1] \/ args[1] = 1
              THEN IsNaN(out[1][i]) /\ IsNaN(out[3][i])
              ELSE BandsAt(i, args[1], args[2])

\* a full window of 3 that varies, after an undefined prefix of 2
C8_Witness ==
    /\ IsBollinger /\ args[1] = 3 /\ args[2] = 2 /\ Len(close) >= 4
    /\ IsNaN(out[1][2]) /\ IsNaN(out[3][2]) /\ IsFinite(out[2][2])
    /\ Gt(out[1][4], out[2][4])
    /\ Sub(out[1][4], out[2][4]) = Mul(Num(2), SampleStd(close, 3, 4))


(* C9: %K is undefined at the first k_period-1 points and then equals       *)
(* 100*(close - lowest low)/(highest high - lowest low) over the trailing   *)
(* k_period rows (where the range is not zero); %D is undefined at the      *)
(* first k_period+d_period-2 points and then is the mean of the last        *)
(* d_period values of %K (where those are finite).                          *)
C9_StochasticDefinition ==
    IsStochastic =>
        LET k_period == args[1]
            d_period == args[2]
            k_percent == out[1]
            d_percent == out[2]
        IN \A i \in Positions :
              /\ i < k_period => IsNaN(k_percent[i])
              /\ (i >= k_period /\ HighestHigh(k_period, i) # LowestLow(k_period, i)) =>
                    k_percent[i] =
                        Div(Mul(Num(100), Sub(close[i], LowestLow(k_period, i))),
                            Sub(HighestHigh(k_period, i), LowestLow(k_period, i)))
              /\ i < k_period + d_period - 1 => IsNaN(d_percent[i])
              /\ (/\ i >= k_period + d_period - 1
                  /\ \A j \in (i - d_period + 1)..i : IsFinite(k_percent[j])) =>
                    d_percent[i] = MeanRange(k_percent, i - d_period + 1, i)

\* k_period = d_period = 2 on three rows: %K starts at index 1 with two
\* different values, %D at index 2 with their mean
C9_Witness ==
    /\ IsStochastic /\ args = <<2, 2>> /\ Len(close) = 3
    /\ IsNaN(out[1][1]) /\ IsFinite(out[1][2]) /\ IsFinite(out[1][3])
    /\ out[1][2] # out[1][3]
    /\ IsNaN(out[2][2])
    /\ out[2][3] = MeanRange(out[1], 2, 3)

(* C10 as claimed: at every index with a full window whose highest high     *)
(* equals its lowest low, %K and Williams %R are the undefined marker,      *)
(* whatever close is there.                                                 *)
C10_FlatRangeIsUndefined ==
    (IsStochastic \/ IsWilliamsR) =>
        \A i \in Positions :
            (i >= args[1] /\ HighestHigh(args[1], i) = LowestLow(args[1], i)) =>
                IsNaN(out[1][i])

(* C11 as claimed: ATR is undefined at the first point (index 0 has no      *)
(* previous close) and at every index below period-1; where it is defined   *)
(* it is the mean of the true ranges of the trailing `period` rows.         *)
C11_ATRUndefinedAtFirstPoint ==
    IsATR =>
        \A i \in Positions :
            /\ (i = 1 \/ i < args[1]) => IsNaN(out[1][i])
            /\ ~IsNaN(out[1][i]) =>
                  /\ i - args[1] + 1 >= 2
                  /\ out[1][i] = Div(SumTrueRange(i - args[1] + 1, i), Num(args[1]))

---------------------------------------------------------------------------
(* The pipeline: what a call of calculate_all_indicators left behind *)

IsPipeline == op = "calculate_all_indicators"
Returned == IsPipeline /\ "returned" \in DOMAIN out
Raised == IsPipeline /\ "raised" \in DOMAIN out
InputFrame == frames[1]
ResultFrame == frames[out.returned]
HasPriceColumn(df) == "close" \in Columns(df) \/ "price" \in Columns(df)

\* the frame (or the error) a call on a new instance gives for df
OutcomeOf(r) == IF "returned" \in DOMAIN r.ret THEN r.heap[r.ret.returned] ELSE r.ret
OutcomeFor(df, selected_indicators) ==
    OutcomeOf(calculate_all_indicators(__init__, <<df>>, 1, selected_indicators))

Outcome == IF Returned THEN ResultFrame ELSE out

NameSet(selected_indicators) ==
    {selected_indicators[i] : i \in 1..Len(selected_indicators)}

(* C12: the call leaves the frame it is given as it was, also when it       *)
(* raises; the frame it returns is another object with the same row index,  *)
(* the input's columns with the same values, and one value per row in       *)
(* every column.                                                            *)
C12_InputFrameUntouched ==
    [][(op' = "calculate_all_indicators") =>
          /\ frames'[1] = frames[1]
          /\ ("returned" \in DOMAIN out') =>
                LET result == frames'[out'.returned]
                IN /\ out'.returned # 1
                   /\ result.index = frames[1].index
                   /\ \A c \in Columns(frames[1]) :
                         c \in Columns(result) /\ result.cols[c] = frames[1].cols[c]
                   /\ \A c \in Columns(result) :
                         Len(result.cols[c]) = NRows(frames[1])]_vars

\* a returned frame of two rows with a column the input does not have
C12_Witness ==
    /\ Returned /\ NRows(InputFrame) = 2
    /\ "EMA_12" \in Columns(ResultFrame) /\ "EMA_12" \notin Columns(InputFrame)
    /\ "open" \in Columns(InputFrame)

(* C13: names outside the vocabulary change nothing: the result is the one  *)
(* of the request without them, no error and no extra column.               *)
C13_UnknownNamesIgnored ==
    (IsPipeline /\ HasPriceColumn(InputFrame)) =>
        /\ Returned
        /\ ResultFrame =
              OutcomeFor(InputFrame, SelectSeq(args[1], LAMBDA n : n \in Vocabulary))

\* "FOO" requested beside a known name
C13_Witness ==
    /\ Returned /\ NRows(InputFrame) = 2
    /\ args[1] = <<"FOO", "MACD">>
    /\ "MACD_Signal" \in Columns(ResultFrame)
    /\ "FOO" \notin Columns(ResultFrame)

(* C14: request lists with the same set of names give the same columns      *)
(* with the same values, whatever the order and the repeats.                *)
C14_OrderAndRepeatsIrrelevant ==
    (IsPipeline /\ HasPriceColumn(InputFrame)) =>
        \A other \in RequestsFor(InputFrame) :
            NameSet(other) = NameSet(args[1]) => OutcomeFor(InputFrame, other) = Outcome

\* two indicators of a moving series, requested in one order
C14_Witness ==
    /\ Returned /\ NRows(InputFrame) = 2
    /\ args[1] = <<"SMA_50", "SMA_20">>
    /\ ResultFrame.cols["close"][1] # ResultFrame.cols["close"][2]
    /\ ResultFrame.cols["SMA_50"] = ResultFrame.cols["SMA_20"]

(* C15: close is the input's close, or its price when it has no close;      *)
(* open, high and low are the input's where it has them and close where it  *)
(* has not; so on a frame with only close (or only price) Stochastic,       *)
(* Williams_R and ATR return their columns, computed from                   *)
(* high = low = close.                                                      *)
NormalizedColumn(df, name) ==
    IF name \in Columns(df) THEN df.cols[name]
    ELSE IF name = "close" THEN df.cols["price"]
    ELSE IF "close" \in Columns(df) THEN df.cols["close"] ELSE df.cols["price"]

C15_Normalization ==
    Returned =>
        LET c == NormalizedColumn(InputFrame, "close")
            h == NormalizedColumn(InputFrame, "high")
            l == NormalizedColumn(InputFrame, "low")
            requested == NameSet(args[1])
        IN /\ \A n \in {"open", "high", "low", "close"} :
                 ResultFrame.cols[n] = NormalizedColumn(InputFrame, n)
           /\ Columns(InputFrame) \in {{"close"}, {"price"}} => (h = c /\ l = c)
           /\ "Stochastic" \in requested =>
                 <<ResultFrame.cols["Stoch_K"], ResultFrame.cols["Stoch_D"]>> =
                     stochastic_oscillator(h, l, c, Stoch_k_period, Stoch_d_period)
           /\ "Williams_R" \in requested =>
                 ResultFrame.cols["Williams_R"] = williams_r(h, l, c, Williams_period)
           /\ "ATR" \in requested =>
                 ResultFrame.cols["ATR"] = average_true_range(h, l, c, ATR_period)

\* a frame with only a price column, long enough for the windows to fill:
\* the true range is the move of the price, %K its place in its own range
C15_Witness ==
    /\ Returned /\ NRows(InputFrame) = LongRows
    /\ Columns(InputFrame) = {"price"}
    /\ args[1] = <<"Stochastic", "ATR">>
    /\ ResultFrame.cols["high"] = InputFrame.cols["price"]
    /\ ResultFrame.cols["low"] = InputFrame.cols["price"]
    /\ IsFinite(ResultFrame.cols["Stoch_K"][LongRows])
    /\ IsFinite(ResultFrame.cols["ATR"][LongRows])
    /\ IsNaN(ResultFrame.cols["ATR"][1])

(* C16: without a close and without a price column every request raises     *)
(* the ValueError, and no frame is returned.                                *)
C16_MissingPriceColumnRaises ==
    (IsPipeline /\ ~HasPriceColumn(InputFrame)) =>
        /\ out = ValueError
        /\ Len(frames) = 1

\* OHLC columns without close, and a request that is not empty
C16_Witness ==
    /\ Raised /\ "high" \in Columns(InputFrame) /\ NRows(InputFrame) = 2
    /\ args[1] = <<"RSI">>

(* C17 as claimed: a frame with a price column and zero rows makes every    *)
(* request raise a validation error.                                        *)
C17_EmptySeriesRaises ==
    (IsPipeline /\ HasPriceColumn(InputFrame) /\ NRows(InputFrame) = 0) => Raised

(* C18: a call reads and writes nothing of the instance: whatever calls     *)
(* were made before, its outcome is the one a new instance gives for the    *)
(* same frame and request.                                                  *)
C18_Stateless ==
    [][(op' = "calculate_all_indicators") =>
          /\ self' = self
          /\ (IF "returned" \in DOMAIN out' THEN frames'[out'.returned] ELSE out')
                = OutcomeFor(frames[1], args'[1])]_vars

\* a second call on the instance that returns indicator columns
C18_Witness ==
    /\ Returned /\ ncalls = 2 /\ NRows(InputFrame) = 2
    /\ "BB_Middle" \in Columns(ResultFrame)

---------------------------------------------------------------------------
(* The trend analysis: the labels a call of get_trend_analysis returned *)

IsTrend == op = "get_trend_analysis" /\ "returned" \in DOMAIN out
Analysis == out.returned
Latest(column) == frames[1].cols[column][NRows(frames[1])]

\* a > b for two numbers, false when one of them is undefined
StrictlyGreater(a, b) == a[2] > 0 /\ b[2] > 0 /\ a[1] * b[2] > b[1] * a[2]

(* C19: with SMA_20 and SMA_50 in the frame the MA trend is "Bullish" when  *)
(* the last SMA_20 is strictly greater than the last SMA_50 and "Bearish"   *)
(* when it is not, equality included; the same for the MACD status with     *)
(* the last MACD and MACD_Signal.                                           *)
C19_TrendIsStrictComparison ==
    IsTrend =>
        /\ {"SMA_20", "SMA_50"} \subseteq Columns(frames[1]) =>
              Analysis["ma_trend"] =
                  IF StrictlyGreater(Latest("SMA_20"), Latest("SMA_50"))
                  THEN "Bullish" ELSE "Bearish"
        /\ {"MACD", "MACD_Signal"} \subseteq Columns(frames[1]) =>
              Analysis["macd_signal"] =
                  IF StrictlyGreater(Latest("MACD"), Latest("MACD_Signal"))
                  THEN "Bullish" ELSE "Bearish"

\* equal averages after a bullish row, and a MACD above its signal
C19_Witness ==
    /\ IsTrend /\ NRows(frames[1]) = 2
    /\ Columns(frames[1]) = TrendColumns
    /\ Latest("SMA_20") = Num(2) /\ Latest("SMA_50") = Num(2)
    /\ Latest("MACD") = Num(0) /\ Latest("MACD_Signal") = Num(-1)
    /\ Analysis["ma_trend"] = "Bearish"
    /\ Analysis["macd_signal"] = "Bullish"

(* C20: for a defined last RSI r the status is "Overbought" iff r > 70,     *)
(* "Oversold" iff r < 30 and "Neutral" iff 30 <= r <= 70.                   *)
C20_RSIThresholds ==
    (IsTrend /\ "RSI" \in Columns(frames[1]) /\ ~IsNaN(Latest("RSI"))) =>
        LET r == Latest("RSI")
        IN /\ Analysis["rsi_signal"] = "Overbought" <=> r[1] > 70 * r[2]
           /\ Analysis["rsi_signal"] = "Oversold" <=> r[1] < 30 * r[2]
           /\ Analysis["rsi_signal"] = "Neutral" <=> (30 * r[2] <= r[1] /\ r[1] <= 70 * r[2])

\* an RSI of exactly 70 after an overbought row
C20_Witness ==
    /\ IsTrend /\ NRows(frames[1]) = 2
    /\ "RSI" \in Columns(frames[1])
    /\ Latest("RSI") = Num(70)
    /\ Analysis["rsi_signal"] = "Neutral"

(* C21 as claimed: on a frame with zero rows get_trend_analysis returns a    *)
(* summary, empty or partial, and raises nothing, whatever the columns.     *)
C21_ZeroRowsReturnsSummary ==
    (op = "get_trend_analysis" /\ NRows(frames[1]) = 0) => "returned" \in DOMAIN out

(* C22 as claimed: an undefined value in the last row leaves out the signal *)
(* that reads it: no rsi_signal for an undefined RSI, no ma_trend for an    *)
(* undefined SMA_20 or SMA_50, no macd_signal for an undefined MACD or      *)
(* MACD_Signal.                                                             *)
C22_UndefinedValueOmitsSignal ==
    IsTrend =>
        /\ ("RSI" \in Columns(frames[1]) /\ IsNaN(Latest("RSI"))) =>
              "rsi_signal" \notin DOMAIN Analysis
        /\ ({"SMA_20", "SMA_50"} \subseteq Columns(frames[1])
               /\ (IsNaN(Latest("SMA_20")) \/ IsNaN(Latest("SMA_50")))) =>
              "ma_trend" \notin DOMAIN Analysis
        /\ ({"MACD", "MACD_Signal"} \subseteq Columns(frames[1])
               /\ (IsNaN(Latest("MACD")) \/ IsNaN(Latest("MACD_Signal")))) =>
              "macd_signal" \notin DOMAIN Analysis

(* C23: on a frame with at least one row the summary has ma_trend iff the   *)
(* frame has SMA_20 and SMA_50, rsi_signal iff it has RSI, macd_signal iff  *)
(* it has MACD and MACD_Signal; every frame with the same columns and the   *)
(* same last row, whatever its earlier rows and their number, gets the      *)
(* same summary; the call leaves the frame as it was.                       *)
OtherEarlierRow == [SMA_20 |-> Num(1), SMA_50 |-> Num(2), RSI |-> Num(29),
                    MACD |-> Num(-1), MACD_Signal |-> Num(0)]
LastRowOf(df) == [c \in DOMAIN df.cols |-> df.cols[c][Len(df.index)]]
FrameEndingIn(columns, n, last, earlier) ==
    [index |-> [i \in 1..n |-> i],
     cols |-> [c \in columns |-> [i \in 1..n |-> IF i = n THEN last[c] ELSE earlier[c]]]]

C23_SummaryFromColumnsAndLastRow ==
    [][(op' = "get_trend_analysis" /\ NRows(frames[1]) >= 1) =>
          /\ frames' = frames
          /\ "returned" \in DOMAIN out'
          /\ ("ma_trend" \in DOMAIN out'.returned)
                <=> {"SMA_20", "SMA_50"} \subseteq Columns(frames[1])
          /\ ("rsi_signal" \in DOMAIN out'.returned) <=> "RSI" \in Columns(frames[1])
          /\ ("macd_signal" \in DOMAIN out'.returned)
                <=> {"MACD", "MACD_Signal"} \subseteq Columns(frames[1])
          /\ DOMAIN out'.returned \subseteq {"ma_trend", "rsi_signal", "macd_signal"}
          /\ \A n \in 1..(MaxFrameRows + 1), earlier \in {EarlierRow, OtherEarlierRow} :
                get_trend_analysis(__init__,
                                   <<FrameEndingIn(Columns(frames[1]), n,
                                                   LastRowOf(frames[1]), earlier)>>,
                                   1).ret = out']_vars

\* a summary of two of the three signals, read off the second row
C23_Witness ==
    /\ IsTrend /\ NRows(frames[1]) = 2
    /\ Columns(frames[1]) = {"SMA_20", "SMA_50", "RSI", "MACD"}
    /\ DOMAIN Analysis = {"ma_trend", "rsi_signal"}
    /\ Analysis["ma_trend"] = "Bearish" /\ Analysis["rsi_signal"] = "Oversold"

---------------------------------------------------------------------------
(* The dashboard: what a run of the script did to the session cache *)

RunFetched == op = "fetch_data"
Failed(sent) == \E i \in 1..Len(sent) : ~sent[i].ok

(* C24: a run starts with last_update None when the session is new or the   *)
(* button was pressed; fetch_data sends requests exactly when last_update   *)
(* is None or more than 300 seconds old; when it sends none it returns True *)
(* and leaves the session as it was, whatever period and comparison list    *)
(* are selected.                                                            *)
C24_RefetchExactlyWhenStale ==
    [][/\ (op' = "script" /\ (args'[1] \/ "last_update" \notin DOMAIN session)) =>
              session'["last_update"] = None
       /\ (op' = "fetch_data") =>
              /\ (requests' # <<>>) <=>
                    (\/ session["last_update"] = None
                     \/ now - session["last_update"].seconds > 300)
              /\ (requests' = <<>>) => (session' = session /\ out'.returned)]_vars

\* no request at an age of exactly 300 seconds, although the period and
\* the comparison list selected are not the cached ones
C24_Witness ==
    /\ RunFetched /\ requests = <<>> /\ out.returned
    /\ now - session["last_update"].seconds = 300
    /\ session["historical_data"].request.days # args[2]
    /\ DOMAIN session["comparison_data"] # {args[3][i] : i \in 1..Len(args[3])}

(* C25: when a request of a refetch fails, fetch_data returns False and     *)
(* the session is as it was; whenever fetch_data returns True, btc_data,    *)
(* historical_data and comparison_data exist and were stored by the fetch   *)
(* that last_update dates, and the script reads them without error.         *)
FromOneFetch(s) ==
    /\ {"btc_data", "historical_data", "comparison_data", "last_update"} \subseteq DOMAIN s
    /\ s["last_update"] # None
    /\ s["btc_data"] # None
    /\ s["historical_data"] # None
    /\ s["btc_data"].as_of = s["last_update"].seconds
    /\ s["historical_data"].as_of = s["last_update"].seconds
    /\ \A c \in DOMAIN s["comparison_data"] :
          /\ s["comparison_data"][c].as_of = s["last_update"].seconds
          /\ s["comparison_data"][c].request.days = s["historical_data"].request.days

C25_CacheUpdatedAtomically ==
    [][(op' = "fetch_data") =>
          /\ Failed(requests') => (~out'.returned /\ session' = session)
          /\ out'.returned => (FromOneFetch(session') /\ out'.main = "read")]_vars

\* the second comparison coin fails after three answers arrived, over a
\* cache filled by an earlier run
C25_Witness ==
    /\ RunFetched /\ ~out.returned
    /\ Len(requests) = 4 /\ ~requests[4].ok
    /\ session["btc_data"] # None
    /\ session["btc_data"].as_of < now
    /\ session["last_update"] = None

---------------------------------------------------------------------------
(* The fear and greed index *)

IsFearGreed == op = "calculate_fear_greed_index"

\* the label the thresholds give to an index value
LabelOf(v) ==
    IF v[1] >= 75 * v[2] THEN "Extreme Greed"
    ELSE IF v[1] >= 55 * v[2] THEN "Greed"
    ELSE IF v[1] >= 45 * v[2] THEN "Neutral"
    ELSE IF v[1] >= 25 * v[2] THEN "Fear"
    ELSE "Extreme Fear"

(* C28 as claimed: the index returned is within [0, 100] and the label      *)
(* returned is the one the thresholds 75, 55, 45, 25 give to the index      *)
(* returned.                                                                *)
C28_LabelAgreesWithIndex ==
    IsFearGreed =>
        /\ out[1][2] > 0
        /\ 0 <= out[1][1] /\ out[1][1] <= 100 * out[1][2]
        /\ out[2] = LabelOf(out[1])

---------------------------------------------------------------------------
(* Williams %R beside the stochastic %K *)

\* low <= close <= high on every row
InsideCandles == \A i \in Positions : Le(low[i], close[i]) /\ Le(close[i], high[i])

(* C27: with low <= close <= high on every row and the same period p for    *)
(* both, %R and %K are undefined before index p-1; from there on, where     *)
(* the highest high is above the lowest low, %R is within [-100, 0], %K     *)
(* within [0, 100] and %R = %K - 100.                                       *)
C27_WilliamsIsStochasticMinus100 ==
    (IsWilliamsR /\ InsideCandles) =>
        LET period == args[1]
            r == out[1]
            k == stochastic_oscillator(high, low, close, period, 1)[1]
        IN \A i \in Positions :
              /\ i < period => (IsNaN(r[i]) /\ IsNaN(k[i]))
              /\ (i >= period /\ Gt(HighestHigh(period, i), LowestLow(period, i))) =>
                    /\ Le(Num(-100), r[i]) /\ Le(r[i], Num(0))
                    /\ Le(Num(0), k[i]) /\ Le(k[i], Num(100))
                    /\ r[i] = Sub(k[i], Num(100))

\* a close in the middle of the range of two rows, then at its top
C27_Witness ==
    /\ IsWilliamsR /\ InsideCandles /\ args = <<2>> /\ Len(close) = 3
    /\ IsNaN(out[1][1])
    /\ out[1][2] = Num(-50)
    /\ out[1][3] = Num(0)

---------------------------------------------------------------------------
(* The cleaned frame *)

IsClean == op = "clean_data"

(* C26: whatever the frame and the fill method, clean_data leaves its input *)
(* as it was and returns a frame whose index is strictly increasing (so     *)
(* without duplicates), that holds no undefined value, and whose price      *)
(* columns are strictly positive on every row.                              *)
C26_CleanFrameIsValid ==
    [][(op' = "clean_data") =>
          LET df_clean == frames'[out'.returned]
          IN /\ frames'[1] = frames[1]
             /\ out'.returned # 1
             /\ \A i \in 1..(Len(df_clean.index) - 1) :
                   df_clean.index[i] < df_clean.index[i + 1]
             /\ \A c \in DOMAIN df_clean.cols :
                   /\ Len(df_clean.cols[c]) = Len(df_clean.index)
                   /\ \A i \in 1..Len(df_clean.index) :
                         /\ df_clean.cols[c][i][2] # 0 \/ df_clean.cols[c][i][1] # 0
                         /\ c \in {"open", "high", "low", "close", "price"} =>
                               (df_clean.cols[c][i][1] > 0)]_vars

\* timestamps out of order and a missing close between two others: three
\* rows in order, the middle close interpolated
C26_Witness ==
    /\ IsClean /\ args = <<"interpolate">>
    /\ frames[1].index = <<3, 1, 2>>
    /\ IsNaN(frames[1].cols["close"][3])
    /\ frames[out.returned].index = <<1, 2, 3>>
    /\ frames[out.returned].cols["close"] = <<Num(2), <<5, 2>>, Num(3)>>

===========================================================================
